---- MODULE Spec2Model ----
(***************************************************************************)
(* A model of the flow-dps live indexer core:                              *)
(*   - the sparse Patricia-Merkle trie      (ledger/trie/trie.go)          *)
(*   - the component engine                 (engine/engine.go)             *)
(*   - the process entry point run()        (cmd/flow-dps-live/main.go)    *)
(*   - the mapper FSM wired up by run()     (transitions from the spec)    *)
(* Each subsystem has its own specification (SpecTrie and SpecNewTrie,    *)
(* SpecEngine, SpecRun, SpecFSM); the variables of the other subsystems    *)
(* stay idle.                                                              *)
(***************************************************************************)
EXTENDS Integers, Sequences, FiniteSets

VARIABLES
    \* ---- trie
    heap,       \* the allocated nodes: a sequence of node records, a node's id is its index
    root,       \* Trie.root: a node id, NilNode when the trie is empty
    store,      \* the payload store: the set of saved (key, payload) pairs
    history,    \* the Insert calls made so far, in order: <<path, payload>> pairs
    out,        \* the outcome of the last query (read, Leaves, RootHash) since the last Insert
    fault       \* TRUE once an operation has panicked

trieVars == <<heap, root, store, history, out, fault>>

VARIABLES
    \* ---- engine
    components, \* Engine.components: the registered components' names, in order
    epc,        \* where the engine is: "setup", "waiting" (Run's select), "stopping"
                \* (Engine.Stop's loop), "returned" (Run returned), "stopped" (a Stop
                \* called after Run returned), "exited" (os.Exit)
    estop,      \* Engine.Stop's loop: [i: the index it is at, busy: a component's Stop
                \* is executing, inRun: called by Run, phase: "idle" (never called),
                \* "looping", "finished" (returned)]
    stopLog,    \* the calls and returns of the components' Stop made by the last
                \* Engine.Stop, in order: <<name, "call">>, <<name, "return">>
    notify,     \* Engine.notify: the buffered errors
    crun,       \* each component's goroutine: "none", "running", "reported", "blocked"
    esig,       \* the signals buffered in Engine.stop
    esent,      \* the signals sent to the process so far
    eforce,     \* the goroutine forcing the exit on a further signal is running
    efirst,     \* the case Run's select took: "none", "signal", "done", "failed"
    eret        \* what Run returned: "none" (not yet), "nil", or the error

engVars == <<components, epc, estop, stopLog, notify, crun, esig, esent, eforce,
             efirst, eret>>

VARIABLES
    \* ---- run() of cmd/flow-dps-live
    rflags,     \* the inputs: [empty: the index database is empty, checkpoint, metrics:
                \* the flags are given (not ""), skip]
    rpc,        \* where run() is
    rdefer,     \* the deferred calls, the last deferred last
    rclosed,    \* the resources closed so far, in order
    rmade,      \* the objects created so far
    rcomp,      \* each launched component's goroutine: "none", "running", "reported",
                \* "blocked"
    rdone,      \* the number of values buffered in the done channel
    rfailed,    \* the number of values buffered in the failed channel
    rsig,       \* the signals buffered in sig
    rsent,      \* the signals sent to the process so far
    rforce,     \* the goroutine forcing the exit on a further signal is running
    rwake,      \* the case run()'s select took: "none", "signal", "done", "failed"
    rstops,     \* the components' Stop calls and returns so far: <<name, "call">>,
                \* <<name, "return">>
    rwrites,    \* the number of writes the mapper made to the index
    rret,       \* what run() returns, NoExit until it has reached a return statement
    rexit       \* the process's exit code, NoExit while it runs

runVars == <<rflags, rpc, rdefer, rclosed, rmade, rcomp, rdone, rfailed, rsig, rsent,
             rforce, rwake, rstops, rwrites, rret, rexit>>

VARIABLES
    \* ---- the mapper FSM
    fstatus,    \* State.status
    fheight,    \* the height being indexed
    findexed,   \* the persisted indexed height (NoHeight while the index is empty)
    ffirst,     \* the persisted first indexed height (NoHeight while the index is empty)
    fcommits,   \* the heights whose commitment and register mapping are persisted
    fheaders,   \* the heights whose header is persisted
    fforest,    \* the commitments whose trie the forest holds
    froot,      \* the commitment of the working trie
    ffinal,     \* the greatest height the consensus tracker has a header for
    frecords,   \* the heights the execution tracker has a record for
    fbad,       \* the heights whose execution record does not lead to the declared
                \* state commitment
    fresult     \* how FSM.Run ended: "running", "stopped", "failed"

fsmVars == <<fstatus, fheight, findexed, ffirst, fcommits, fheaders, fforest, froot,
             ffinal, frecords, fbad, fresult>>

vars == <<trieVars, engVars, runVars, fsmVars>>

\* what an action of one subsystem leaves alone
notTrie == <<engVars, runVars, fsmVars>>
notEngine == <<trieVars, runVars, fsmVars>>
notRun == <<trieVars, engVars, fsmVars>>
notFSM == <<trieVars, engVars, runVars>>

(***************************************************************************)
(*                               THE TRIE                                  *)
(***************************************************************************)

\* Bounds of the trie model.
MaxInserts == 3
MaxSaved == 2

maxDepth == 255
NodeMaxHeight == 256
PathLen == 32

\* uint8 arithmetic: the value kept, and whether the exact result does not fit.
U8(x) == x % 256
Wraps(x) == x < 0 \/ x > 255

\* bitutils.Bit: bit i of a byte string, bit 0 being the most significant bit of byte 0.
Bit(b, i) == (b[(i \div 8) + 1] \div (2 ^ (7 - (i % 8)))) % 2

ZeroPath == [i \in 1..PathLen |-> 0]
\* the paths inserted and read: all zero, last bit set, first bit set
PathSet == { ZeroPath,
             [ZeroPath EXCEPT ![PathLen] = 1],
             [ZeroPath EXCEPT ![1] = 128] }
\* payload values (byte strings); NilPayload is the nil *ledger.Payload
PayloadSet == { <<1>>, <<2>> }
NilPayload == <<>>

NilNode == 0
NilPtr == [node |-> 0, field |-> "nil"]
RootPtr == [node |-> 0, field |-> "root"]
NoHash == <<"zero">>

\* ledger.ComputeCompactValue(hash.Hash(path), payload.Value, 256) and
\* blake3.Sum256(payload.Value): collision-free hashes, kept symbolic.
ComputeCompactValue(path, value, height) == <<"compact", path, value, height>>
Blake3(value) == <<"blake3", value>>
GetDefaultHashForHeight(height) == <<"default", height>>

NewLeaf(path, payload) ==
    [kind |-> "Leaf", hash |-> ComputeCompactValue(path, payload, 256),
     payload |-> Blake3(payload), dirty |-> FALSE, path |-> <<>>, count |-> 0,
     child |-> NilNode, left |-> NilNode, right |-> NilNode]

NewExtension(path, count, child) ==
    [kind |-> "Extension", hash |-> NoHash, payload |-> NoHash, dirty |-> TRUE,
     path |-> path, count |-> count,
     child |-> child, left |-> NilNode, right |-> NilNode]

NewBranch ==
    [kind |-> "Branch", hash |-> NoHash, payload |-> NoHash, dirty |-> TRUE,
     path |-> <<>>, count |-> 0,
     child |-> NilNode, left |-> NilNode, right |-> NilNode]

\* The dynamic type of the Node held by a slot.
KindOf(h, n) == IF n = NilNode THEN "nil" ELSE h[n].kind

\* *ptr, for a pointer to a Node slot (the root field or a field of a node).
Deref(st, ptr) ==
    IF ptr.field = "root" THEN st.root ELSE st.heap[ptr.node][ptr.field]

\* *ptr = n
Assign(st, ptr, n) ==
    IF ptr.field = "root"
    THEN [st EXCEPT !.root = n]
    ELSE [st EXCEPT !.heap[ptr.node][ptr.field] = n]

\* A freshly allocated node: its id, and the state holding it.
NewId(st) == Len(st.heap) + 1
Alloc(st, rec) == [st EXCEPT !.heap = Append(@, rec)]

\* The loop counting the common bits of `path` and `npath` from bit i up to
\* (excluding) bit limit, stopping at the first difference: the number of
\* iterations before the break, or all of them when no bit differs.
CommonFrom(path, npath, i, limit) ==
    LET differ == { k \in i..(limit - 1) : Bit(path, k) # Bit(npath, k) }
    IN  IF differ = {}
        THEN IF limit > i THEN limit - i ELSE 0
        ELSE (CHOOSE k \in differ : \A j \in differ : k <= j) - i

\* common, as Insert and read compute it for the Extension `node` met at `depth`.
CommonBits(path, node, depth) ==
    CommonFrom(path, node.path, depth, U8(depth + node.count))

\* available, as Insert and read compute it.
Available(node) == U8(Len(node.path))

\* ---- Insert: one iteration of the for loop, by the dynamic type of *current.
\* The loop state: the heap and root, the locals previous, current and depth, and
\* status: "run" (continue), "done" (return), "panic" (nil pointer dereference);
\* wrapped records that one of the uint8 computations made so far wrapped around.

\* InsertNil without the test of the depth: the leaf is put wherever the
\* traversal met the empty slot.
InsertNilAnyDepth(st, path, payload) ==
    LET leaf == NewId(st)
        s1 == Alloc(st, NewLeaf(path, payload))
        s2 == Assign(s1, st.current, leaf)
    IN  [s2 EXCEPT !.previous = st.current, !.status = "done"]

\* case nil (trie.go 95-122)
InsertNil(st, path, payload) ==
    IF st.depth = maxDepth
    THEN LET leaf == NewId(st)
             s1 == Alloc(st, NewLeaf(path, payload))
             s2 == Assign(s1, st.current, leaf)
         IN  [s2 EXCEPT !.previous = st.current, !.status = "done"]
    ELSE LET extension == NewId(st)
             s1 == Alloc(st, NewExtension(path, U8(maxDepth - st.depth), NilNode))
         IN  [s1 EXCEPT !.previous = st.current,
                        !.current = [node |-> extension, field |-> "child"],
                        !.depth = maxDepth,
                        !.wrapped = @ \/ Wraps(maxDepth - st.depth)]

\* case *Extension (trie.go 127-199)
InsertExtension(st, path, payload) ==
    LET id == Deref(st, st.current)
        node == st.heap[id]
        available == Available(node)
        common == CommonBits(path, node, st.depth)
        bound == st.wrapped \/ Wraps(st.depth + node.count)
    IN  IF common = available
        THEN [st EXCEPT !.heap[id].dirty = TRUE,
                        !.previous = st.current,
                        !.current = [node |-> id, field |-> "child"],
                        !.depth = U8(st.depth + available),
                        !.wrapped = bound \/ Wraps(st.depth + available)]
        ELSE LET \* branch := Branch{...}
                 branch == NewId(st)
                 s1 == Alloc(st, NewBranch)
                 \* other: the extension's child, or a new Extension above it
                 direct == U8(available - common) = 1
                 other == IF direct THEN node.child ELSE NewId(s1)
                 s2 == IF direct THEN s1
                       ELSE Alloc(s1, NewExtension(node.path,
                                                   U8(available - common - 1),
                                                   node.child))
                 \* replace the extension by the branch, or shorten it
                 s3 == IF common = 0
                       THEN IF st.previous = NilPtr
                            THEN [s2 EXCEPT !.status = "panic"]
                            ELSE Assign(s2, st.previous, branch)
                       ELSE [s2 EXCEPT !.heap[id].child = branch,
                                       !.heap[id].count = common,
                                       !.heap[id].dirty = TRUE]
                 s4 == [s3 EXCEPT !.wrapped = bound \/ Wraps(available - common)
                                              \/ (~direct /\ Wraps(available - common - 1))]
             IN  IF s4.status = "panic" THEN s4
                 ELSE IF Bit(node.path, common) = 0
                      THEN [s4 EXCEPT !.heap[branch].left = other,
                                      !.previous = st.current,
                                      !.current = [node |-> branch, field |-> "right"]]
                      ELSE [s4 EXCEPT !.heap[branch].right = other,
                                      !.previous = st.current,
                                      !.current = [node |-> branch, field |-> "left"]]

\* case *Branch (trie.go 204-215)
InsertBranch(st, path, payload) ==
    LET id == Deref(st, st.current)
    IN  [st EXCEPT !.current = [node |-> id,
                                field |-> IF Bit(path, st.depth) = 0
                                          THEN "left" ELSE "right"],
                   !.heap[id].dirty = TRUE,
                   !.depth = U8(st.depth + 1),
                   !.wrapped = @ \/ Wraps(st.depth + 1)]

\* case *Leaf (trie.go 220-223)
InsertLeaf(st, path, payload) == Assign(st, st.current, NilNode)

InsertStep(st, path, payload) ==
    LET kind == KindOf(st.heap, Deref(st, st.current))
    IN  CASE kind = "nil"       -> InsertNil(st, path, payload)
          [] kind = "Extension" -> InsertExtension(st, path, payload)
          [] kind = "Branch"    -> InsertBranch(st, path, payload)
          [] kind = "Leaf"      -> InsertLeaf(st, path, payload)

RECURSIVE InsertLoop(_, _, _)
InsertLoop(st, path, payload) ==
    IF st.status # "run" THEN st
    ELSE InsertLoop(InsertStep(st, path, payload), path, payload)

\* Trie.Insert on the trie (h, r): the loop state it ends in.
Insert(h, r, path, payload) ==
    InsertLoop([heap |-> h, root |-> r, previous |-> NilPtr, current |-> RootPtr,
                depth |-> 0, status |-> "run", wrapped |-> FALSE], path, payload)

\* ---- read (trie.go 264-309)

\* t.store.Retrieve(key): the payload saved under the key, NilPayload on a miss.
Retrieve(st, key) ==
    IF \E e \in st : e[1] = key
    THEN (CHOOSE e \in st : e[1] = key)[2]
    ELSE NilPayload

\* Leaf.Hash()
LeafHash(node) == node.hash

RECURSIVE ReadLoop(_, _, _, _, _)
ReadLoop(h, st, n, depth, path) ==
    LET kind == KindOf(h, n)
    IN  CASE kind = "Branch" ->
               ReadLoop(h, st,
                        IF Bit(path, depth) = 0 THEN h[n].left ELSE h[n].right,
                        U8(depth + 1), path)
          [] kind = "Extension" ->
               IF Available(h[n]) # CommonBits(path, h[n], depth)
               THEN NilPayload
               ELSE ReadLoop(h, st, h[n].child, U8(depth + h[n].count), path)
          [] kind = "Leaf" -> Retrieve(st, LeafHash(h[n]))
          [] kind = "nil" -> NilPayload

read(h, r, st, path) == ReadLoop(h, st, r, 0, path)

\* ---- Leaves (trie.go 229-252): the loop over the deque, used as a stack.
\* Popping a nil Node fails the type assertion queue.PopBack().(Node): a panic.
RECURSIVE LeavesLoop(_, _, _)
LeavesLoop(h, queue, leaves) ==
    IF Len(queue) = 0 THEN [leaves |-> leaves, panic |-> FALSE]
    ELSE LET n == queue[Len(queue)]
             rest == SubSeq(queue, 1, Len(queue) - 1)
             kind == KindOf(h, n)
         IN  CASE kind = "nil" -> [leaves |-> leaves, panic |-> TRUE]
               [] kind = "Leaf" -> LeavesLoop(h, rest, Append(leaves, n))
               [] kind = "Extension" -> LeavesLoop(h, Append(rest, h[n].child), leaves)
               [] kind = "Branch" ->
                    LeavesLoop(h, Append(Append(rest, h[n].left), h[n].right), leaves)

Leaves(h, r) ==
    LeavesLoop(h, IF r # NilNode THEN <<r>> ELSE <<>>, <<>>)

\* ---- RootHash (trie.go 70-77)

\* Node.Hash(): the cached hash of a clean node; a dirty node recomputes it from
\* its children. HashHeap is the heap after the call (hashes cached, dirty cleared),
\* HashValue the value returned.
RECURSIVE HashHeap(_, _)
HashValue(h, n) == IF n = NilNode THEN <<"default">> ELSE h[n].hash
HashHeap(h, n) ==
    IF n = NilNode THEN h
    ELSE CASE h[n].kind = "Leaf" -> h
           [] h[n].kind = "Extension" ->
                IF ~h[n].dirty THEN h
                ELSE LET h1 == HashHeap(h, h[n].child)
                     IN  [h1 EXCEPT ![n].hash = <<"ext", h[n].path, h[n].count,
                                                   HashValue(h1, h[n].child)>>,
                                    ![n].dirty = FALSE]
           [] h[n].kind = "Branch" ->
                IF ~h[n].dirty THEN h
                ELSE LET h1 == HashHeap(h, h[n].left)
                         h2 == HashHeap(h1, h[n].right)
                     IN  [h2 EXCEPT ![n].hash = <<"branch", HashValue(h2, h[n].left),
                                                   HashValue(h2, h[n].right)>>,
                                    ![n].dirty = FALSE]

RootHash(h, r) ==
    IF r = NilNode
    THEN GetDefaultHashForHeight(NodeMaxHeight)
    ELSE HashValue(HashHeap(h, r), r)


\* ---- the trie's operations as actions

NoOut == [op |-> "none", path |-> <<>>, res |-> <<>>]

\* NewEmptyTrie (trie.go 40-48), with an empty payload store
NewEmptyTrie ==
    /\ heap = <<>>
    /\ root = NilNode
    /\ store = {}
    /\ history = <<>>
    /\ out = NoOut
    /\ fault = FALSE

\* t.Insert(path, payload)
TrieInsert(path, payload) ==
    /\ ~fault
    /\ Len(history) < MaxInserts
    /\ LET st == Insert(heap, root, path, payload)
       IN  /\ heap' = st.heap
           /\ root' = st.root
           /\ fault' = (st.status = "panic")
    /\ history' = Append(history, <<path, payload>>)
    /\ out' = NoOut
    /\ UNCHANGED <<store, notTrie>>

\* t.read(path), as UnsafeRead calls it for each path
TrieRead(path) ==
    /\ ~fault
    /\ out' = [op |-> "read", path |-> path, res |-> read(heap, root, store, path)]
    /\ UNCHANGED <<heap, root, store, history, fault, notTrie>>

\* t.Leaves()
TrieLeaves ==
    /\ ~fault
    /\ LET r == Leaves(heap, root)
       IN  /\ out' = [op |-> "Leaves", path |-> <<>>, res |-> r.leaves]
           /\ fault' = r.panic
    /\ UNCHANGED <<heap, root, store, history, notTrie>>

\* t.RootHash()
TrieRootHash ==
    /\ ~fault
    /\ out' = [op |-> "RootHash", path |-> <<>>, res |-> RootHash(heap, root)]
    /\ heap' = HashHeap(heap, root)
    /\ UNCHANGED <<root, store, history, fault, notTrie>>

\* The trie's user saves a payload in the payload store, under the hash of its leaf.
StoreSave(path, payload) ==
    /\ ~fault
    /\ Cardinality(store) < MaxSaved
    /\ <<ComputeCompactValue(path, payload, NodeMaxHeight), payload>> \notin store
    /\ store' = store \cup {<<ComputeCompactValue(path, payload, NodeMaxHeight), payload>>}
    /\ out' = NoOut
    /\ UNCHANGED <<heap, root, history, fault, notTrie>>

TrieNext ==
    \/ \E path \in PathSet, payload \in PayloadSet : TrieInsert(path, payload)
    \/ \E path \in PathSet : TrieRead(path)
    \/ TrieLeaves
    \/ TrieRootHash
    \/ \E path \in PathSet, payload \in PayloadSet : StoreSave(path, payload)


\* ---- what the trie is expected to hold after a history of Insert calls

\* the payload of the last Insert made at path p, NilPayload if there was none
RECURSIVE LastInserted(_, _)
LastInserted(hist, p) ==
    IF Len(hist) = 0 THEN NilPayload
    ELSE IF hist[Len(hist)][1] = p THEN hist[Len(hist)][2]
         ELSE LastInserted(SubSeq(hist, 1, Len(hist) - 1), p)

InsertedPaths(hist) == { hist[i][1] : i \in 1..Len(hist) }

DistinctPaths(hist) == Cardinality(InsertedPaths(hist)) = Len(hist)

\* the payload read back from a leaf is in the payload store
Saved(p, payload) ==
    <<ComputeCompactValue(p, payload, NodeMaxHeight), payload>> \in store

\* the trie built by the Insert calls of hist, in order, from the empty trie
RECURSIVE InsertAll(_, _)
InsertAll(hist, n) ==
    IF n = 0 THEN [heap |-> <<>>, root |-> NilNode, status |-> "done", wrapped |-> FALSE]
    ELSE LET t == InsertAll(hist, n - 1)
         IN  IF t.status = "panic" THEN t
             ELSE Insert(t.heap, t.root, hist[n][1], hist[n][2])

Orders(n) ==
    { f \in [1..n -> 1..n] : \A i, j \in 1..n : f[i] = f[j] => i = j }

Permuted(hist, f) == [i \in 1..Len(hist) |-> hist[f[i]]]

\* ---- a trie made by NewTrie from a root node the caller hands over

\* the path whose only set bit is bit i
BitPath(i) == [ZeroPath EXCEPT ![(i \div 8) + 1] = 2 ^ (7 - (i % 8))]

\* the paths inserted into and read from such a trie: those of PathSet, and two
\* that leave the all-zero path at bit PathLen and at the bit after it
NewTriePaths == PathSet \cup { BitPath(PathLen), BitPath(PathLen + 1) }

\* a payload store that holds every payload under the hash of its leaf
FullStore ==
    { <<ComputeCompactValue(p, v, NodeMaxHeight), v>> :
        p \in NewTriePaths, v \in PayloadSet }

\* The reachable nodes of the trie (h, r) below the slot `edge` holding n, each
\* with the number of path bits consumed above it and the slot that holds it.
RECURSIVE Reach(_, _, _, _)
Reach(h, n, d, edge) ==
    IF n = NilNode THEN {}
    ELSE {[id |-> n, depth |-> d, edge |-> edge]} \cup
         CASE h[n].kind = "Leaf" -> {}
           [] h[n].kind = "Extension" ->
                Reach(h, h[n].child, d + h[n].count, [node |-> n, field |-> "child"])
           [] h[n].kind = "Branch" ->
                Reach(h, h[n].left, d + 1, [node |-> n, field |-> "left"]) \cup
                Reach(h, h[n].right, d + 1, [node |-> n, field |-> "right"])

Nodes(h, r) == Reach(h, r, 0, RootPtr)

\* (I1) every leaf is at depth 255
I1(h, r) ==
    \A x \in Nodes(h, r) : h[x.id].kind = "Leaf" => x.depth = maxDepth
\* (I2) no Branch has both children Empty
I2(h, r) ==
    \A x \in Nodes(h, r) :
        h[x.id].kind = "Branch" => (h[x.id].left # NilNode \/ h[x.id].right # NilNode)
\* (I3) no Extension has an Empty child
I3(h, r) ==
    \A x \in Nodes(h, r) : h[x.id].kind = "Extension" => h[x.id].child # NilNode
\* (I4) two Extensions are never consecutive on the same edge
I4(h, r) ==
    \A x \in Nodes(h, r) :
        h[x.id].kind = "Extension" => KindOf(h, h[x.id].child) # "Extension"
\* the bit-count of every Extension is in [1, 255] and stays within the path
CountsInRange(h, r) ==
    \A x \in Nodes(h, r) :
        h[x.id].kind = "Extension" =>
            (h[x.id].count >= 1 /\ h[x.id].count <= maxDepth
             /\ x.depth + h[x.id].count <= maxDepth)

WellFormed(h, r) ==
    I1(h, r) /\ I2(h, r) /\ I3(h, r) /\ I4(h, r) /\ CountsInRange(h, r)

\* The tries handed to NewTrie: the root's heap, the root, and the Insert calls
\* the trie stands for. Every one satisfies I1-I4.
InitialTries ==
    LET Z == ZeroPath
        L == BitPath(maxDepth)
        F == BitPath(0)
        M == BitPath(PathLen)
        P == <<1>>
        left(n) == [NewBranch EXCEPT !.left = n]
        both(n, m) == [NewBranch EXCEPT !.left = n, !.right = m]
    IN  { \* the empty trie
          [heap |-> <<>>, root |-> NilNode, built |-> <<>>],
          \* one leaf below an Extension of the whole path
          [heap |-> << NewExtension(Z, maxDepth, 2), NewLeaf(Z, P) >>,
           root |-> 1, built |-> << <<Z, P>> >>],
          \* two leaves that part at the last bit
          [heap |-> << NewExtension(Z, maxDepth - 1, 2), both(3, 4),
                       NewLeaf(Z, P), NewLeaf(L, P) >>,
           root |-> 1, built |-> << <<Z, P>>, <<L, P>> >>],
          \* two leaves that part at the first bit
          [heap |-> << both(2, 4), NewExtension(Z, maxDepth - 1, 3), NewLeaf(Z, P),
                       NewExtension(F, maxDepth - 1, 5), NewLeaf(F, P) >>,
           root |-> 1, built |-> << <<Z, P>>, <<F, P>> >>],
          \* two leaves that part at bit PathLen
          [heap |-> << NewExtension(Z, PathLen, 2), both(3, 5),
                       NewExtension(Z, maxDepth - PathLen - 1, 4), NewLeaf(Z, P),
                       NewExtension(M, maxDepth - PathLen - 1, 6), NewLeaf(M, P) >>,
           root |-> 1, built |-> << <<Z, P>>, <<M, P>> >>],
          \* partial tries: a Branch with one Empty child
          [heap |-> << left(2), NewExtension(Z, maxDepth - 1, 3), NewLeaf(Z, P) >>,
           root |-> 1, built |-> << <<Z, P>> >>],
          [heap |-> << NewExtension(Z, PathLen, 2), left(3),
                       NewExtension(Z, maxDepth - PathLen - 1, 4), NewLeaf(Z, P) >>,
           root |-> 1, built |-> << <<Z, P>> >>] }

\* NewTrie(log, root, store) (trie.go 51-59)
NewTrie(t) ==
    /\ heap = t.heap
    /\ root = t.root
    /\ store = FullStore
    /\ history = t.built
    /\ out = NoOut
    /\ fault = FALSE

NewTrieNext ==
    \/ \E path \in NewTriePaths, payload \in PayloadSet : TrieInsert(path, payload)
    \/ \E path \in NewTriePaths : TrieRead(path)
    \/ TrieLeaves
    \/ TrieRootHash

(***************************************************************************)
(*                              THE ENGINE                                 *)
(***************************************************************************)

\* Bounds of the engine model.
MaxComponents == 3
MaxSignals == 2

\* the names components are registered under
NameSet == {"a", "b", "c", "d"}
\* what a component's run function returns
NoError == "nil"
ErrorSet == {"error", "other error"}
\* the capacity of the signal channel handed to engine.New
SigCap == 1

\* engine.New (engine.go 33-40)
NewEngine ==
    /\ components = <<>>
    /\ epc = "setup"
    /\ estop = [i |-> 0, busy |-> FALSE, inRun |-> FALSE, phase |-> "idle"]
    /\ stopLog = <<>>
    /\ notify = <<>>
    /\ crun = [n \in NameSet |-> "none"]
    /\ esig = 0
    /\ esent = 0
    /\ eforce = FALSE
    /\ efirst = "none"
    /\ eret = "none"

\* e.Component(name, run, stop) (engine.go 44-54)
Component(name) ==
    /\ epc = "setup"
    /\ Len(components) < MaxComponents
    /\ \A i \in 1..Len(components) : components[i] # name
    /\ components' = Append(components, name)
    /\ UNCHANGED <<epc, estop, stopLog, notify, crun, esig, esent, eforce, efirst, eret, notEngine>>

\* The process receives a signal: signal.Notify's send does not block, a signal
\* that finds the channel full is dropped.
EngineSignal ==
    /\ epc # "exited"
    /\ esent < MaxSignals
    /\ esent' = esent + 1
    /\ esig' = IF esig < SigCap THEN esig + 1 ELSE esig
    /\ UNCHANGED <<components, epc, estop, stopLog, notify, crun, eforce, efirst, eret, notEngine>>

\* The capacity of the notify channel (engine.go 59), one less and as written.
NotifyCapOneLess == Len(components) - 1
NotifyCap == Len(components)

\* e.Run() up to its select (engine.go 58-62): the channel is made and every
\* component's Run is launched in a goroutine.
EngineRunStart ==
    /\ epc = "setup"
    /\ epc' = "waiting"
    /\ notify' = <<>>
    /\ crun' = [n \in NameSet |->
                  IF \E i \in 1..Len(components) : components[i] = n
                  THEN "running" ELSE "none"]
    /\ UNCHANGED <<components, estop, stopLog, esig, esent, eforce, efirst, eret, notEngine>>

\* component.Run(notify): the component's run function returns err, which the
\* goroutine sends on notify; the send blocks when the buffer is full.
ComponentReport(name, err) ==
    /\ epc # "exited"
    /\ crun[name] = "running"
    /\ IF Len(notify) < NotifyCap
       THEN /\ notify' = Append(notify, err)
            /\ crun' = [crun EXCEPT ![name] = "reported"]
       ELSE /\ crun' = [crun EXCEPT ![name] = "blocked"]
            /\ UNCHANGED notify
    /\ UNCHANGED <<components, epc, estop, stopLog, esig, esent, eforce, efirst, eret, notEngine>>

\* Engine.Stop's loop (engine.go 92-94), on 1-based indices: where it starts,
\* whether it goes on, and its step.
StopStartSkipsLast(n) == n - 1
StopStart(n) == n
StopMore(i) == i >= 1
StopStep(i) == i - 1

\* select, case <-e.stop (engine.go 69-70), then the forcing goroutine is
\* launched and Run returns nil (engine.go 79-85).
EngineSelectStop ==
    /\ epc = "waiting"
    /\ esig > 0
    /\ esig' = esig - 1
    /\ efirst' = "signal"
    /\ eforce' = TRUE
    /\ eret' = NoError
    /\ epc' = "returned"
    /\ UNCHANGED <<components, estop, stopLog, notify, crun, esent, notEngine>>

\* select, case err := <-e.notify, without the call of e.Stop() on an error
EngineSelectNotifyNoStop ==
    /\ epc = "waiting"
    /\ Len(notify) > 0
    /\ notify' = Tail(notify)
    /\ efirst' = IF Head(notify) # NoError THEN "failed" ELSE "done"
    /\ eforce' = (Head(notify) = NoError)
    /\ eret' = Head(notify)
    /\ epc' = "returned"
    /\ UNCHANGED <<estop, stopLog, components, crun, esig, esent, notEngine>>

\* select, case err := <-e.notify (engine.go 71-77): on an error Run calls
\* e.Stop() and returns the error after it; otherwise as above.
EngineSelectNotify ==
    /\ epc = "waiting"
    /\ Len(notify) > 0
    /\ notify' = Tail(notify)
    /\ IF Head(notify) # NoError
       THEN /\ efirst' = "failed"
            /\ epc' = "stopping"
            /\ estop' = [i |-> StopStart(Len(components)), busy |-> FALSE,
                         inRun |-> TRUE, phase |-> "looping"]
            /\ stopLog' = <<>>
            /\ eret' = Head(notify)
            /\ UNCHANGED eforce
       ELSE /\ efirst' = "done"
            /\ eforce' = TRUE
            /\ eret' = NoError
            /\ epc' = "returned"
            /\ UNCHANGED <<estop, stopLog>>
    /\ UNCHANGED <<components, crun, esig, esent, notEngine>>

\* The engine's user calls e.Stop() after Run has returned.
EngineStopCall ==
    /\ epc = "returned"
    /\ epc' = "stopping"
    /\ estop' = [i |-> StopStart(Len(components)), busy |-> FALSE, inRun |-> FALSE,
                 phase |-> "looping"]
    /\ stopLog' = <<>>
    /\ UNCHANGED <<components, notify, crun, esig, esent, eforce, efirst, eret, notEngine>>

\* e.components[i].Stop() is called (engine.go 93) ...
ComponentStopCall ==
    /\ epc = "stopping"
    /\ ~estop.busy
    /\ StopMore(estop.i)
    /\ estop' = [estop EXCEPT !.busy = TRUE]
    /\ stopLog' = Append(stopLog, <<components[estop.i], "call">>)
    /\ UNCHANGED <<components, epc, notify, crun, esig, esent, eforce, efirst, eret, notEngine>>

\* ... and returns; the loop moves on.
ComponentStopReturn ==
    /\ epc = "stopping"
    /\ estop.busy
    /\ estop' = [estop EXCEPT !.busy = FALSE, !.i = StopStep(estop.i)]
    /\ stopLog' = Append(stopLog, <<components[estop.i], "return">>)
    /\ UNCHANGED <<components, epc, notify, crun, esig, esent, eforce,
                   efirst, eret, notEngine>>

\* The loop of e.Stop() ends: Stop returns, to Run (which returns the error,
\* engine.go 75) or to the engine's user.
EngineStopReturn ==
    /\ epc = "stopping"
    /\ ~estop.busy
    /\ ~StopMore(estop.i)
    /\ epc' = IF estop.inRun THEN "returned" ELSE "stopped"
    /\ estop' = [estop EXCEPT !.inRun = FALSE, !.phase = "finished"]
    /\ UNCHANGED <<components, stopLog, notify, crun, esig, esent, eforce, efirst, eret, notEngine>>

\* The goroutine of engine.go 79-83 receives a signal: os.Exit(1).
EngineForceExit ==
    /\ epc # "exited"
    /\ eforce
    /\ esig > 0
    /\ esig' = esig - 1
    /\ epc' = "exited"
    /\ UNCHANGED <<components, estop, stopLog, notify, crun, esent, eforce, efirst, eret, notEngine>>

EngineNext ==
    \/ \E name \in NameSet : Component(name)
    \/ EngineSignal
    \/ EngineRunStart
    \/ \E name \in NameSet, err \in {NoError} \cup ErrorSet : ComponentReport(name, err)
    \/ EngineSelectStop
    \/ EngineSelectNotify
    \/ EngineStopCall
    \/ ComponentStopCall
    \/ ComponentStopReturn
    \/ EngineStopReturn
    \/ EngineForceExit

(***************************************************************************)
(*                    run() OF cmd/flow-dps-live/main.go                   *)
(***************************************************************************)

\* Bounds of the model of run().
MaxWrites == 1

success == 0
failure == 1
NoExit == 0 - 1

\* the capacity of sig, and of done and failed (main.go 71, 446-447)
RunSigCap == 1
ChanCap == 4

\* the four components launched (main.go 449-452)
Launched == {"follower", "mapper", "api", "metrics"}

\* the order of the Stop calls (main.go 477-480)
StopOrderFollowerFirst == <<"follower", "api", "mapper", "metrics">>
StopOrder == <<"api", "follower", "mapper", "metrics">>

\* the test of main.go 163, inverted and as written
CheckpointMissingInverted(flags) == flags.empty /\ flags.checkpoint
CheckpointMissing(flags) == flags.empty /\ ~flags.checkpoint

\* metricsEnabled (main.go 343)
MetricsEnabled(flags) == flags.metrics

\* the state before run() is entered, for the given index database and flags
RunStart(flags) ==
    /\ rflags = flags
    /\ rpc = "openIndex"
    /\ rdefer = <<>>
    /\ rclosed = <<>>
    /\ rmade = {}
    /\ rcomp = [c \in Launched |-> "none"]
    /\ rdone = 0
    /\ rfailed = 0
    /\ rsig = 0
    /\ rsent = 0
    /\ rforce = FALSE
    /\ rwake = "none"
    /\ rstops = <<>>
    /\ rwrites = 0
    /\ rret = NoExit
    /\ rexit = NoExit

RunIdle == RunStart([empty |-> FALSE, checkpoint |-> FALSE, metrics |-> FALSE])

\* what a step of run() leaves alone unless it says otherwise
RunFrame == <<rflags, rcomp, rdone, rfailed, rsig, rsent, rforce, rwake, rstops,
              rwrites, rexit, notRun>>

\* `return failure`: the deferred calls run next
ReturnFailure ==
    /\ rpc' = "unwinding"
    /\ rret' = failure
    /\ UNCHANGED <<rdefer, rclosed, rmade>>

\* a step that succeeds: it creates `made`, defers `deferred`, and goes on at `next`
GoOn(next, made, deferred) ==
    /\ rpc' = next
    /\ rmade' = rmade \cup made
    /\ rdefer' = rdefer \o deferred
    /\ UNCHANGED <<rclosed, rret>>

\* main.go 105-135: the flags and the log level are parsed, the index database is opened
RunOpenIndex(ok) ==
    /\ rpc = "openIndex"
    /\ IF ok THEN GoOn("openProtocol", {"indexDB"}, <<"indexDB">>) ELSE ReturnFailure
    /\ UNCHANGED RunFrame

\* main.go 136-146: the protocol state database is opened
RunOpenProtocol(ok) ==
    /\ rpc = "openProtocol"
    /\ IF ok THEN GoOn("first", {"protocolDB"}, <<"protocolDB">>) ELSE ReturnFailure
    /\ UNCHANGED RunFrame

\* main.go 154-166: the index reader is made and the first indexed height is
\* read; ok is FALSE when the read fails with another error than key-not-found
RunFirst(ok) ==
    /\ rpc = "first"
    /\ rmade' = rmade \cup {"reader"}
    /\ IF ~ok \/ CheckpointMissing(rflags)
       THEN rpc' = "unwinding" /\ rret' = failure
       ELSE rpc' = "writer" /\ UNCHANGED rret
    /\ UNCHANGED <<rdefer, rclosed, RunFrame>>

\* main.go 173-183 without the deferred write.Close()
RunWriterNoDefer ==
    /\ rpc = "writer"
    /\ GoOn("follower", {"writer"}, <<>>)
    /\ UNCHANGED RunFrame

\* main.go 173-183: the index writer
RunWriter ==
    /\ rpc = "writer"
    /\ GoOn("follower", {"writer"}, <<"writer">>)
    /\ UNCHANGED RunFrame

\* main.go 189-237: the network key, the seed node's address and key, the
\* consensus follower
RunFollower(ok) ==
    /\ rpc = "follower"
    /\ IF ok THEN GoOn("snapshot", {"follow"}, <<>>) ELSE ReturnFailure
    /\ UNCHANGED RunFrame

\* main.go 246-252: the protocol state snapshot is opened
RunSnapshot(ok) ==
    /\ rpc = "snapshot"
    /\ IF ok THEN GoOn("protocolState", {}, <<"snapshotFile">>) ELSE ReturnFailure
    /\ UNCHANGED RunFrame

\* main.go 253-266: the protocol state is initialized, the catch-up blocks are found
RunProtocolState(ok) ==
    /\ rpc = "protocolState"
    /\ IF ok THEN GoOn("cloud", {}, <<>>) ELSE ReturnFailure
    /\ UNCHANGED RunFrame

\* main.go 272-284: the GCP client
RunCloud(ok) ==
    /\ rpc = "cloud"
    /\ IF ok THEN GoOn("trackers", {"stream"}, <<"gcpClient">>) ELSE ReturnFailure
    /\ UNCHANGED RunFrame

\* how the making of the two trackers may end (main.go 294-303)
TrackerOutcomes == {"ok", "noExecution", "noConsensus"}

\* main.go 285-311: the execution tracker, then the consensus tracker; the
\* second is made, or fails, after the first was made
RunTrackers(outcome) ==
    /\ rpc = "trackers"
    /\ rmade' = rmade \cup
                  CASE outcome = "ok" -> {"execution", "consensus"}
                    [] outcome = "noConsensus" -> {"execution"}
                    [] outcome = "noExecution" -> {}
    /\ IF outcome = "ok"
       THEN rpc' = "loader" /\ UNCHANGED rret
       ELSE rpc' = "unwinding" /\ rret' = failure
    /\ UNCHANGED <<rdefer, rclosed, RunFrame>>

\* main.go 316-338: the loader from the index is made; then the checkpoint file
\* is opened when the index is empty or the checkpoint flag is given
RunLoader(ok) ==
    /\ rpc = "loader"
    /\ rmade' = rmade \cup {"load"}
    /\ IF (rflags.empty \/ rflags.checkpoint) /\ ~ok
       THEN rpc' = "unwinding" /\ rret' = failure /\ UNCHANGED rdefer
       ELSE /\ rpc' = "fsm"
            /\ rdefer' = IF rflags.empty \/ rflags.checkpoint
                         THEN Append(rdefer, "checkpointFile") ELSE rdefer
            /\ UNCHANGED rret
    /\ UNCHANGED <<rclosed, RunFrame>>

\* main.go 342-384: the transitions, the forest, the FSM, the GRPC server
RunFSM ==
    /\ rpc = "fsm"
    /\ GoOn("listen", {"fsm", "gsvr", "server"}, <<>>)
    /\ UNCHANGED RunFrame

\* main.go 389-393: the listener
RunListen(ok) ==
    /\ rpc = "listen"
    /\ IF ok THEN GoOn("launch", {"listener"}, <<>>) ELSE ReturnFailure
    /\ UNCHANGED RunFrame

\* main.go 395-452: the components and channels are made, the four goroutines launched
RunLaunch ==
    /\ rpc = "launch"
    /\ rpc' = "wait"
    /\ rmade' = rmade \cup {"metricsSrv"}
    /\ rcomp' = [c \in Launched |-> "running"]
    /\ UNCHANGED <<rflags, rdefer, rclosed, rdone, rfailed, rsig, rsent, rforce, rwake,
                   rstops, rwrites, rret, rexit, notRun>>

\* what the run function of a component may return: ok (nil) or not
Outcomes(c) ==
    CASE c = "follower" -> {TRUE}
      [] c = "metrics" -> IF MetricsEnabled(rflags) THEN {TRUE, FALSE} ELSE {TRUE}
      [] OTHER -> {TRUE, FALSE}

\* component.Run(done, failed): the run function returns and the goroutine reports
\* on done (nil) or failed (an error); the send blocks when the buffer is full.
RunComponentReport(c, ok) ==
    /\ rexit = NoExit
    /\ rcomp[c] = "running"
    /\ ok \in Outcomes(c)
    /\ IF ok
       THEN IF rdone < ChanCap
            THEN /\ rdone' = rdone + 1
                 /\ rcomp' = [rcomp EXCEPT ![c] = "reported"]
            ELSE /\ rcomp' = [rcomp EXCEPT ![c] = "blocked"]
                 /\ UNCHANGED rdone
       ELSE UNCHANGED rdone
    /\ IF ~ok
       THEN IF rfailed < ChanCap
            THEN /\ rfailed' = rfailed + 1
                 /\ rcomp' = [rcomp EXCEPT ![c] = "reported"]
            ELSE /\ rcomp' = [rcomp EXCEPT ![c] = "blocked"]
                 /\ UNCHANGED rfailed
       ELSE UNCHANGED rfailed
    /\ UNCHANGED <<rflags, rpc, rdefer, rclosed, rmade, rsig, rsent, rforce, rwake,
                   rstops, rwrites, rret, rexit, notRun>>

\* The mapper, while it runs, writes to the index through the writer.
RunMapperWrite ==
    /\ rexit = NoExit
    /\ rcomp["mapper"] = "running"
    /\ rwrites < MaxWrites
    /\ rwrites' = rwrites + 1
    /\ UNCHANGED <<rflags, rpc, rdefer, rclosed, rmade, rcomp, rdone, rfailed, rsig,
                   rsent, rforce, rwake, rstops, rret, rexit, notRun>>

\* The process receives an interrupt: signal.Notify's send does not block, a
\* signal that finds sig full is dropped.
RunSignal ==
    /\ rexit = NoExit
    /\ rsent < MaxSignals
    /\ rsent' = rsent + 1
    /\ rsig' = IF rsig < RunSigCap THEN rsig + 1 ELSE rsig
    /\ UNCHANGED <<rflags, rpc, rdefer, rclosed, rmade, rcomp, rdone, rfailed, rforce,
                   rwake, rstops, rwrites, rret, rexit, notRun>>

\* The select of main.go 458-465 takes one of its ready cases; the goroutine of
\* main.go 466-470 is launched after it.
RunSelect(case) ==
    /\ rpc = "wait"
    /\ CASE case = "signal" -> rsig > 0
         [] case = "done" -> rdone > 0
         [] case = "failed" -> rfailed > 0
    /\ rsig' = IF case = "signal" THEN rsig - 1 ELSE rsig
    /\ rdone' = IF case = "done" THEN rdone - 1 ELSE rdone
    /\ rfailed' = IF case = "failed" THEN rfailed - 1 ELSE rfailed
    /\ rwake' = case
    /\ rforce' = TRUE
    /\ rpc' = "shutdown"
    /\ UNCHANGED <<rflags, rdefer, rclosed, rmade, rcomp, rsent, rstops, rwrites, rret,
                   rexit, notRun>>

\* the number of Stop calls that have returned, and whether one is executing
StopsReturned == Len(rstops) \div 2
StopExecuting == Len(rstops) % 2 = 1

\* main.go 477-480: the next component's Stop is called ...
RunStopCall ==
    /\ rpc = "shutdown"
    /\ ~StopExecuting
    /\ StopsReturned < Len(StopOrder)
    /\ rstops' = Append(rstops, <<StopOrder[StopsReturned + 1], "call">>)
    /\ UNCHANGED <<rflags, rpc, rdefer, rclosed, rmade, rcomp, rdone, rfailed, rsig,
                   rsent, rforce, rwake, rwrites, rret, rexit, notRun>>

\* ... and returns.
RunStopReturn ==
    /\ rpc = "shutdown"
    /\ StopExecuting
    /\ rstops' = Append(rstops, <<rstops[Len(rstops)][1], "return">>)
    /\ UNCHANGED <<rflags, rpc, rdefer, rclosed, rmade, rcomp, rdone, rfailed, rsig,
                   rsent, rforce, rwake, rwrites, rret, rexit, notRun>>

\* what run() returns after the shutdown (main.go 482)
ShutdownResult == success

\* main.go 482: return
RunReturn ==
    /\ rpc = "shutdown"
    /\ ~StopExecuting
    /\ StopsReturned = Len(StopOrder)
    /\ rpc' = "unwinding"
    /\ rret' = ShutdownResult
    /\ UNCHANGED <<rflags, rdefer, rclosed, rmade, rcomp, rdone, rfailed, rsig, rsent,
                   rforce, rwake, rstops, rwrites, rexit, notRun>>

\* After a return statement the deferred calls run, the last deferred first.
RunDeferred ==
    /\ rpc = "unwinding"
    /\ Len(rdefer) > 0
    /\ rclosed' = Append(rclosed, rdefer[Len(rdefer)])
    /\ rdefer' = SubSeq(rdefer, 1, Len(rdefer) - 1)
    /\ UNCHANGED <<rflags, rpc, rmade, rcomp, rdone, rfailed, rsig, rsent, rforce,
                   rwake, rstops, rwrites, rret, rexit, notRun>>

\* main.go 65: os.Exit(run())
RunExit ==
    /\ rpc = "unwinding"
    /\ Len(rdefer) = 0
    /\ rpc' = "exited"
    /\ rexit' = rret
    /\ UNCHANGED <<rflags, rdefer, rclosed, rmade, rcomp, rdone, rfailed, rsig, rsent,
                   rforce, rwake, rstops, rwrites, rret, notRun>>

\* The goroutine of main.go 466-470 receives a signal: os.Exit(1).
RunForceExit ==
    /\ rexit = NoExit
    /\ rforce
    /\ rsig > 0
    /\ rsig' = rsig - 1
    /\ rpc' = "exited"
    /\ rexit' = failure
    /\ UNCHANGED <<rflags, rdefer, rclosed, rmade, rcomp, rdone, rfailed, rsent, rforce,
                   rwake, rstops, rwrites, rret, notRun>>

RunNext ==
    \/ \E ok \in BOOLEAN : RunOpenIndex(ok)
    \/ \E ok \in BOOLEAN : RunOpenProtocol(ok)
    \/ \E ok \in BOOLEAN : RunFirst(ok)
    \/ RunWriter
    \/ \E ok \in BOOLEAN : RunFollower(ok)
    \/ \E ok \in BOOLEAN : RunSnapshot(ok)
    \/ \E ok \in BOOLEAN : RunProtocolState(ok)
    \/ \E ok \in BOOLEAN : RunCloud(ok)
    \/ \E outcome \in TrackerOutcomes : RunTrackers(outcome)
    \/ \E ok \in BOOLEAN : RunLoader(ok)
    \/ RunFSM
    \/ \E ok \in BOOLEAN : RunListen(ok)
    \/ RunLaunch
    \/ \E c \in Launched, ok \in BOOLEAN : RunComponentReport(c, ok)
    \/ RunMapperWrite
    \/ RunSignal
    \/ \E case \in {"signal", "done", "failed"} : RunSelect(case)
    \/ RunStopCall
    \/ RunStopReturn
    \/ RunReturn
    \/ RunDeferred
    \/ RunExit
    \/ RunForceExit

(***************************************************************************)
(*                            THE MAPPER FSM                               *)
(* run() wires one transition to each status (main.go 357-366); what the   *)
(* transitions do is taken from the specification of the indexer FSM.      *)
(***************************************************************************)

\* Bounds of the FSM model.
MaxHeight == 4

NoHeight == 0
\* the heights a spork may start at
RootHeights == 1..2

\* the state commitment a block declares, and a root hash that is none
Commit(h) == <<"commit", h>>
NoCommit == <<"none", NoHeight>>
\* the root hash computed from the execution record of height h
Computed(h, bad) == IF h \in bad THEN <<"diverged", h>> ELSE Commit(h)

\* mapper.NewFSM with mapper.EmptyState(forest) (main.go 355-357), on an index
\* database that holds the heights first..last (none when first = NoHeight),
\* for a spork that starts at height `start`
NewFSM(first, last, start) ==
    /\ fstatus = "Initialize"
    /\ fheight = start
    /\ findexed = last
    /\ ffirst = first
    /\ fcommits = IF first = NoHeight THEN {} ELSE first..last
    /\ fheaders = IF first = NoHeight THEN {} ELSE first..last
    /\ fforest = {}
    /\ froot = NoCommit
    /\ ffinal = IF first = NoHeight THEN start ELSE last
    /\ frecords = {}
    /\ fbad = {}
    /\ fresult = "running"

FSMIdle == NewFSM(NoHeight, NoHeight, NoHeight)

\* mapper.WithTransition(status, transition) (main.go 358-365), with the Map
\* status wired to the transition of Forward
TransitionOfMapForwards(status) ==
    CASE status = "Initialize" -> "InitializeMapper"
      [] status = "Bootstrap"  -> "BootstrapState"
      [] status = "Resume"     -> "ResumeIndexing"
      [] status = "Index"      -> "IndexChain"
      [] status = "Update"     -> "UpdateTree"
      [] status = "Collect"    -> "CollectRegisters"
      [] status = "Map"        -> "ForwardHeight"
      [] status = "Forward"    -> "ForwardHeight"
\* mapper.WithTransition(status, transition) (main.go 358-365), with the
\* transitions of Map and Forward exchanged, and as written
TransitionOfSwapped(status) ==
    CASE status = "Initialize" -> "InitializeMapper"
      [] status = "Bootstrap"  -> "BootstrapState"
      [] status = "Resume"     -> "ResumeIndexing"
      [] status = "Index"      -> "IndexChain"
      [] status = "Update"     -> "UpdateTree"
      [] status = "Collect"    -> "CollectRegisters"
      [] status = "Map"        -> "ForwardHeight"
      [] status = "Forward"    -> "MapRegisters"
TransitionOf(status) ==
    CASE status = "Initialize" -> "InitializeMapper"
      [] status = "Bootstrap"  -> "BootstrapState"
      [] status = "Resume"     -> "ResumeIndexing"
      [] status = "Index"      -> "IndexChain"
      [] status = "Update"     -> "UpdateTree"
      [] status = "Collect"    -> "CollectRegisters"
      [] status = "Map"        -> "MapRegisters"
      [] status = "Forward"    -> "ForwardHeight"

\* FSM.Run applies the transition wired to the current status
Wired(transition) == fresult = "running" /\ TransitionOf(fstatus) = transition

\* mapper.WithBootstrapState(empty) (main.go 352): the index database is empty
BootstrapWanted == ffirst = NoHeight

\* Initialize -> Bootstrap if the index is empty, -> Resume otherwise
InitializeMapper ==
    /\ Wired("InitializeMapper")
    /\ fstatus' = IF BootstrapWanted THEN "Bootstrap" ELSE "Resume"
    /\ UNCHANGED <<fheight, findexed, ffirst, fcommits, fheaders, fforest, froot,
                   ffinal, frecords, fbad, fresult, notFSM>>

\* Bootstrap: the trie is loaded from the root checkpoint, the initial mapping is
\* persisted at the spork's root height
BootstrapState ==
    /\ Wired("BootstrapState")
    /\ ffirst' = fheight
    /\ findexed' = fheight
    /\ fcommits' = {fheight}
    /\ fheaders' = {fheight}
    /\ fforest' = {Commit(fheight)}
    /\ froot' = Commit(fheight)
    /\ fstatus' = "Index"
    /\ UNCHANGED <<fheight, ffinal, frecords, fbad, fresult, notFSM>>

\* Resume: the trie is loaded from the last indexed height
ResumeIndexing ==
    /\ Wired("ResumeIndexing")
    /\ fheight' = findexed
    /\ fforest' = {Commit(findexed)}
    /\ froot' = Commit(findexed)
    /\ fstatus' = "Index"
    /\ UNCHANGED <<findexed, ffirst, fcommits, fheaders, ffinal, frecords, fbad,
                   fresult, notFSM>>

\* Index: waits for the header of indexed_height + 1, persists its metadata
IndexChain ==
    /\ Wired("IndexChain")
    /\ ffinal >= findexed + 1
    /\ fheight' = findexed + 1
    /\ fheaders' = fheaders \cup {findexed + 1}
    /\ fstatus' = "Update"
    /\ UNCHANGED <<findexed, ffirst, fcommits, fforest, froot, ffinal, frecords, fbad,
                   fresult, notFSM>>

\* Update: the parent trie is located in the forest by the parent commitment;
\* a missing parent is fatal
UpdateTree ==
    /\ Wired("UpdateTree")
    /\ IF Commit(fheight - 1) \in fforest
       THEN /\ froot' = Commit(fheight - 1)
            /\ fstatus' = "Collect"
            /\ UNCHANGED fresult
       ELSE /\ fresult' = "failed"
            /\ UNCHANGED <<froot, fstatus>>
    /\ UNCHANGED <<fheight, findexed, ffirst, fcommits, fheaders, fforest, ffinal,
                   frecords, fbad, notFSM>>

\* Collect: waits for the execution record of the current block
CollectRegisters ==
    /\ Wired("CollectRegisters")
    /\ fheight \in frecords
    /\ fstatus' = "Map"
    /\ UNCHANGED <<fheight, findexed, ffirst, fcommits, fheaders, fforest, froot,
                   ffinal, frecords, fbad, fresult, notFSM>>

\* Map: the updates are applied and the root hash is computed; a root hash other
\* than the block's state commitment is fatal; otherwise the register mapping and
\* the commitment are persisted under the current height and the trie is stored
\* in the forest
MapRegisters ==
    /\ Wired("MapRegisters")
    /\ IF Computed(fheight, fbad) = Commit(fheight)
       THEN /\ fcommits' = fcommits \cup {fheight}
            /\ fforest' = fforest \cup {Commit(fheight)}
            /\ froot' = Commit(fheight)
            /\ fstatus' = "Forward"
            /\ UNCHANGED fresult
       ELSE /\ fresult' = "failed"
            /\ UNCHANGED <<fcommits, fforest, froot, fstatus>>
    /\ UNCHANGED <<fheight, findexed, ffirst, fheaders, ffinal, frecords, fbad, notFSM>>

\* Forward: indexed_height advances by one, the forest is pruned to the new
\* height's commitment
ForwardHeight ==
    /\ Wired("ForwardHeight")
    /\ findexed' = findexed + 1
    /\ fforest' = fforest \cap {Commit(findexed + 1)}
    /\ fstatus' = "Index"
    /\ UNCHANGED <<fheight, ffirst, fcommits, fheaders, froot, ffinal, frecords, fbad,
                   fresult, notFSM>>

\* fsm.Stop() (main.go 416): the FSM stops between two transitions
FSMStop ==
    /\ fresult = "running"
    /\ fresult' = "stopped"
    /\ UNCHANGED <<fstatus, fheight, findexed, ffirst, fcommits, fheaders, fforest,
                   froot, ffinal, frecords, fbad, notFSM>>

\* The consensus follower finalizes the next block: the consensus tracker gets
\* its header (main.go 311).
Finalize ==
    /\ fresult = "running"
    /\ ffinal # NoHeight
    /\ ffinal < MaxHeight
    /\ ffinal' = ffinal + 1
    /\ UNCHANGED <<fstatus, fheight, findexed, ffirst, fcommits, fheaders, fforest,
                   froot, frecords, fbad, fresult, notFSM>>

\* The cloud streamer has downloaded the execution record of a finalized block
\* (main.go 310); `good`: its updates lead to the state commitment the block declares.
Download(h, good) ==
    /\ fresult = "running"
    /\ h <= ffinal
    /\ h \notin frecords
    /\ frecords' = frecords \cup {h}
    /\ fbad' = IF good THEN fbad ELSE fbad \cup {h}
    /\ UNCHANGED <<fstatus, fheight, findexed, ffirst, fcommits, fheaders, fforest,
                   froot, ffinal, fresult, notFSM>>

FSMNext ==
    \/ InitializeMapper
    \/ BootstrapState
    \/ ResumeIndexing
    \/ IndexChain
    \/ UpdateTree
    \/ CollectRegisters
    \/ MapRegisters
    \/ ForwardHeight
    \/ FSMStop
    \/ Finalize
    \/ \E h \in 1..MaxHeight, good \in BOOLEAN : Download(h, good)

(***************************************************************************)
(*                           THE SPECIFICATIONS                            *)
(***************************************************************************)

TrieInit == NewEmptyTrie /\ NewEngine /\ RunIdle /\ FSMIdle
SpecTrie == TrieInit /\ [][TrieNext]_vars

NewTrieInit ==
    /\ \E t \in InitialTries : WellFormed(t.heap, t.root) /\ NewTrie(t)
    /\ NewEngine /\ RunIdle /\ FSMIdle
SpecNewTrie == NewTrieInit /\ [][NewTrieNext]_vars

EngineInit == NewEngine /\ NewEmptyTrie /\ RunIdle /\ FSMIdle
SpecEngine == EngineInit /\ [][EngineNext]_vars

RunInit ==
    /\ \E flags \in [empty : BOOLEAN, checkpoint : BOOLEAN, metrics : BOOLEAN] :
          RunStart(flags)
    /\ NewEmptyTrie /\ NewEngine /\ FSMIdle
SpecRun == RunInit /\ [][RunNext]_vars

\* A process is a user of the engine or the indexer's run(): once one of the two
\* has made a step the other is never entered.
ProcessInit == RunInit
ProcessNext ==
    \/ \E name \in NameSet : RunIdle /\ Component(name)
    \/ RunIdle /\ EngineSignal
    \/ RunIdle /\ EngineRunStart
    \/ \E name \in NameSet, err \in {NoError} \cup ErrorSet : RunIdle /\ ComponentReport(name, err)
    \/ RunIdle /\ EngineSelectStop
    \/ RunIdle /\ EngineSelectNotify
    \/ RunIdle /\ EngineStopCall
    \/ RunIdle /\ ComponentStopCall
    \/ RunIdle /\ ComponentStopReturn
    \/ RunIdle /\ EngineStopReturn
    \/ RunIdle /\ EngineForceExit
    \/ \E ok \in BOOLEAN : NewEngine /\ RunOpenIndex(ok)
    \/ \E ok \in BOOLEAN : NewEngine /\ RunOpenProtocol(ok)
    \/ \E ok \in BOOLEAN : NewEngine /\ RunFirst(ok)
    \/ NewEngine /\ RunWriter
    \/ \E ok \in BOOLEAN : NewEngine /\ RunFollower(ok)
    \/ \E ok \in BOOLEAN : NewEngine /\ RunSnapshot(ok)
    \/ \E ok \in BOOLEAN : NewEngine /\ RunProtocolState(ok)
    \/ \E ok \in BOOLEAN : NewEngine /\ RunCloud(ok)
    \/ \E outcome \in TrackerOutcomes : NewEngine /\ RunTrackers(outcome)
    \/ \E ok \in BOOLEAN : NewEngine /\ RunLoader(ok)
    \/ NewEngine /\ RunFSM
    \/ \E ok \in BOOLEAN : NewEngine /\ RunListen(ok)
    \/ NewEngine /\ RunLaunch
    \/ \E c \in Launched, ok \in BOOLEAN : NewEngine /\ RunComponentReport(c, ok)
    \/ NewEngine /\ RunMapperWrite
    \/ NewEngine /\ RunSignal
    \/ \E case \in {"signal", "done", "failed"} : NewEngine /\ RunSelect(case)
    \/ NewEngine /\ RunStopCall
    \/ NewEngine /\ RunStopReturn
    \/ NewEngine /\ RunReturn
    \/ NewEngine /\ RunDeferred
    \/ NewEngine /\ RunExit
    \/ NewEngine /\ RunForceExit
SpecProcess == ProcessInit /\ [][ProcessNext]_vars

\* the index database is empty, or holds the heights first..last
FSMInit ==
    /\ \/ \E start \in RootHeights : NewFSM(NoHeight, NoHeight, start)
       \/ \E first \in RootHeights, last \in 1..(MaxHeight - 1) :
             first <= last /\ NewFSM(first, last, first)
    /\ NewEmptyTrie /\ NewEngine /\ RunIdle
SpecFSM == FSMInit /\ [][FSMNext]_vars

(***************************************************************************)
(*                     PROPERTIES OF THE TRIE (SpecTrie)                   *)
(***************************************************************************)

\* C1: on a trie created empty, a read of p returns the payload of the last
\* Insert made at p, and nil if p was never inserted (the payload read back being
\* one the payload store holds).
C1_ReadReturnsLastInserted ==
    out.op = "read" =>
        LET want == LastInserted(history, out.path)
        IN  (want = NilPayload \/ Saved(out.path, want)) => out.res = want

\* C4: after any sequence of Insert calls on an initially empty trie, Leaves()
\* returns one Leaf per distinct inserted path.
C4_LeavesOnePerPath ==
    out.op = "Leaves" => Len(out.res) = Cardinality(InsertedPaths(history))

\* C5: inserting a set of (path, payload) pairs with pairwise distinct paths into
\* an empty trie gives the same RootHash() in whatever order they are inserted.
C5_RootHashOrderIndependent ==
    (out.op = "RootHash" /\ DistinctPaths(history)) =>
        \A f \in Orders(Len(history)) :
            LET t == InsertAll(Permuted(history, f), Len(history))
            IN  t.status = "done" /\ RootHash(t.heap, t.root) = out.res

C5_Witness ==
    /\ out.op = "RootHash"
    /\ Len(history) >= 2
    /\ DistinctPaths(history)
    /\ \E f \in Orders(Len(history)) : Permuted(history, f) # history

\* the two paths differ in their last bit and in no other bit
DifferOnlyInLastBit(p, q) ==
    /\ Bit(p, maxDepth) # Bit(q, maxDepth)
    /\ \A i \in 0..(maxDepth - 1) : Bit(p, i) = Bit(q, i)

\* the last payload inserted at the path of the pair whose last bit is b
LeafFor(hist, b) ==
    LET e == CHOOSE e \in {hist[1], hist[2]} : Bit(e[1], maxDepth) = b
    IN  ComputeCompactValue(e[1], e[2], NodeMaxHeight)

\* C6: after inserting into an empty trie two paths that differ only in the last
\* bit, the trie is one Extension of length 254 at the root, then one Branch,
\* then two Leaves, one per inserted path.
C6_TwoLeavesShape ==
    (Len(history) = 2 /\ DifferOnlyInLastBit(history[1][1], history[2][1])) =>
        /\ KindOf(heap, root) = "Extension"
        /\ heap[root].count = maxDepth - 1
        /\ KindOf(heap, heap[root].child) = "Branch"
        /\ LET b == heap[heap[root].child]
           IN  /\ KindOf(heap, b.left) = "Leaf"
               /\ KindOf(heap, b.right) = "Leaf"
               /\ heap[b.left].hash = LeafFor(history, 0)
               /\ heap[b.right].hash = LeafFor(history, 1)

\* C15: after a single Insert into an empty trie the root edge holds an Extension
\* with the inserted path and count 255 whose child is the new Leaf: the trie is
\* no longer empty, RootHash() is no longer the default hash and Leaves() has
\* length 1.
C15_EmptyEdgeHoldsExtension ==
    Len(history) = 1 =>
        /\ KindOf(heap, root) = "Extension"
        /\ heap[root].path = history[1][1]
        /\ heap[root].count = maxDepth
        /\ KindOf(heap, heap[root].child) = "Leaf"
        /\ RootHash(heap, root) # GetDefaultHashForHeight(NodeMaxHeight)
        /\ Len(Leaves(heap, root).leaves) = 1

(***************************************************************************)
(*                  PROPERTIES OF THE TRIE (SpecNewTrie)                   *)
(***************************************************************************)

\* the loop state of Insert when it meets the node x, at the depth x is at
LoopStateAt(x, previous) ==
    [heap |-> heap, root |-> root, previous |-> previous, current |-> x.edge,
     depth |-> x.depth, status |-> "run", wrapped |-> FALSE]

\* path agrees with the path of the Extension x on all the bits x consumes
Agrees(path, x) ==
    \A k \in x.depth..(x.depth + heap[x.id].count - 1) :
        Bit(path, k) = Bit(heap[x.id].path, k)

\* Insert passes through the Extension x: nothing is allocated, the traversal
\* goes on at x's child, x's bit-count further down
PassesThrough(x, r) ==
    /\ r.status = "run"
    /\ Len(r.heap) = Len(heap)
    /\ r.current = [node |-> x.id, field |-> "child"]
    /\ r.depth = x.depth + heap[x.id].count

\* Insert forks at the Extension x: a Branch is made
Forks(r) ==
    /\ Len(r.heap) > Len(heap)
    /\ r.heap[Len(heap) + 1].kind = "Branch"

\* C16: in a trie satisfying I1-I4 Insert passes through an Extension without
\* restructuring, and read goes on below it at depth d + count, exactly when the
\* path agrees with the Extension's path on the bits d .. d+count-1; otherwise
\* Insert forks and read returns nil.
C16_ExtensionPassedWhenAllBitsAgree ==
    WellFormed(heap, root) =>
        \A x \in Nodes(heap, root), path \in NewTriePaths :
            heap[x.id].kind = "Extension" =>
                LET r == InsertExtension(LoopStateAt(x, NilPtr), path, <<1>>)
                    rd == ReadLoop(heap, store, x.id, x.depth, path)
                IN  IF Agrees(path, x)
                    THEN /\ PassesThrough(x, r)
                         /\ rd = ReadLoop(heap, store, heap[x.id].child,
                                          x.depth + heap[x.id].count, path)
                    ELSE Forks(r) /\ rd = NilPayload

\* the step of Insert at st forks an Extension, at its depth, whose path
\* differs from the inserted path in the first bit the Extension consumes
ZeroCommonFork(st, path) ==
    LET id == Deref(st, st.current)
    IN  /\ KindOf(st.heap, id) = "Extension"
        /\ \E x \in Nodes(st.heap, st.root) : x.id = id /\ x.depth = st.depth
        /\ Bit(path, st.depth) # Bit(st.heap[id].path, st.depth)

\* after the step from st to r, the edge that held the Extension holds the new
\* Branch and every other edge outside the Extension is as it was
BranchInPlace(st, r) ==
    LET id == Deref(st, st.current)
    IN  /\ r.status # "panic"
        /\ Deref(r, st.current) = Len(st.heap) + 1
        /\ KindOf(r.heap, Len(st.heap) + 1) = "Branch"
        /\ st.current # RootPtr => r.root = st.root
        /\ \A n \in 1..Len(st.heap), f \in {"child", "left", "right"} :
               (n # id /\ [node |-> n, field |-> f] # st.current) =>
                   r.heap[n][f] = st.heap[n][f]

\* Insert's loop from st on: the zero-common fork it makes, if any, is in place
RECURSIVE ZeroForkInPlace(_, _, _)
ZeroForkInPlace(st, path, payload) ==
    IF st.status # "run" THEN TRUE
    ELSE IF ZeroCommonFork(st, path)
         THEN BranchInPlace(st, InsertStep(st, path, payload))
         ELSE ZeroForkInPlace(InsertStep(st, path, payload), path, payload)

\* C17: when Insert, on a trie satisfying I1-I4, forks an Extension with which the
\* inserted path has no common bit, the edge that held the Extension holds the
\* new Branch afterwards, every other edge outside the Extension is unchanged,
\* and Insert does not fault, also when the Extension is the root.
C17_ZeroCommonForkInPlace ==
    WellFormed(heap, root) =>
        \A path \in NewTriePaths :
            ZeroForkInPlace([heap |-> heap, root |-> root, previous |-> NilPtr,
                             current |-> RootPtr, depth |-> 0, status |-> "run",
                             wrapped |-> FALSE], path, <<1>>)

\* C18: I1 holds after every Insert: every Leaf of the trie is at depth 255, from
\* an empty trie and from any trie satisfying I1-I4.
C18_LeavesAtMaxDepth == ~fault => I1(heap, root)

\* C19: after every Insert no Extension of the trie has an Empty child and no
\* Branch has both children Empty, from an empty trie and from any trie
\* satisfying I1-I4.
C19_NoEmptyBelow == ~fault => (I2(heap, root) /\ I3(heap, root))

\* read's loop from node n at depth: one of its uint8 computations wraps
RECURSIVE ReadWraps(_, _, _, _)
ReadWraps(h, n, depth, path) ==
    LET kind == KindOf(h, n)
    IN  CASE kind = "Branch" ->
               \/ Wraps(depth + 1)
               \/ ReadWraps(h, IF Bit(path, depth) = 0 THEN h[n].left ELSE h[n].right,
                            U8(depth + 1), path)
          [] kind = "Extension" ->
               \/ Wraps(depth + h[n].count)
               \/ /\ Available(h[n]) = CommonBits(path, h[n], depth)
                  /\ ReadWraps(h, h[n].child, U8(depth + h[n].count), path)
          [] OTHER -> FALSE

\* no uint8 computation of the Insert or read made by this step wraps
NoWrap ==
    /\ Len(history') > Len(history) =>
           ~Insert(heap, root, history'[Len(history')][1],
                   history'[Len(history')][2]).wrapped
    /\ (out'.op = "read" /\ out' # out) => ~ReadWraps(heap, root, 0, out'.path)

\* C20: every Extension of the trie has 1 <= count <= 255 and depth + count <= 255
\* after every Insert, and no uint8 computation of Insert and read wraps around,
\* from an empty trie and from any trie satisfying I1-I4.
C20_CountsAndNoWrap ==
    /\ [](~fault => CountsInRange(heap, root))
    /\ [][NoWrap]_vars

\* the Leaf nodes reachable from the root
ReachableLeaves(h, r) == { x.id : x \in { y \in Nodes(h, r) : h[y.id].kind = "Leaf" } }

\* C21: on every trie satisfying I1-I4, a partial one with a Branch that has one
\* Empty child included, Leaves() does not fault and returns exactly the Leaf
\* nodes reachable from the root, each once; on the empty trie it returns none.
C21_LeavesReturnsReachableLeaves ==
    (out.op = "Leaves" /\ WellFormed(heap, root)) =>
        /\ ~fault
        /\ { out.res[i] : i \in 1..Len(out.res) } = ReachableLeaves(heap, root)
        /\ Len(out.res) = Cardinality(ReachableLeaves(heap, root))

\* the number of iterations Insert's loop makes from st on
RECURSIVE Iterations(_, _, _)
Iterations(st, path, payload) ==
    IF st.status # "run" THEN 0
    ELSE 1 + Iterations(InsertStep(st, path, payload), path, payload)

\* C22: Insert terminates: on every trie (one where a Leaf is met above depth 255
\* and is set to nil included) and for every path, the loop returns after
\* finitely many iterations, at most two per node met and two to put the Leaf,
\* having installed the Leaf in the slot it ended at.
C22_InsertTerminates ==
    ~fault =>
        \A path \in NewTriePaths :
            LET st == [heap |-> heap, root |-> root, previous |-> NilPtr,
                       current |-> RootPtr, depth |-> 0, status |-> "run",
                       wrapped |-> FALSE]
                r == InsertLoop(st, path, <<1>>)
            IN  /\ r.status = "done"
                /\ KindOf(r.heap, Deref(r, r.previous)) = "Leaf"
                /\ Iterations(st, path, <<1>>) <= 2 * Len(heap) + 2

(***************************************************************************)
(*                   PROPERTIES OF THE ENGINE (SpecEngine)                 *)
(***************************************************************************)

Reverse(seq) == [k \in 1..Len(seq) |-> seq[Len(seq) + 1 - k]]

IsPrefix(s, t) == Len(s) <= Len(t) /\ SubSeq(t, 1, Len(s)) = s

\* Stop called on each component of `order` in turn, each call after the return
\* of the one before
StopsOf(order) ==
    [k \in 1..(2 * Len(order)) |->
        <<order[(k + 1) \div 2], IF k % 2 = 1 THEN "call" ELSE "return">>]

\* C8: Engine.Stop calls Stop on every registered component exactly once, in the
\* reverse of the order of registration, each call after the previous one returned.
C8_StopInReverseOrder ==
    /\ estop.phase # "idle" => IsPrefix(stopLog, StopsOf(Reverse(components)))
    /\ estop.phase = "finished" => stopLog = StopsOf(Reverse(components))

C8_Witness ==
    /\ estop.phase = "finished"
    /\ Len(components) >= 2
    /\ stopLog = StopsOf(Reverse(components))

\* C9: the components are shut down in the order in which they were registered:
\* Engine.Stop stops c1 first and cn last.
C9_StopInRegistrationOrder ==
    /\ estop.phase # "idle" => IsPrefix(stopLog, StopsOf(components))
    /\ estop.phase = "finished" => stopLog = StopsOf(components)

\* Engine.Run has returned (the engine's user may have called Stop since)
RunReturned ==
    \/ epc \in {"returned", "stopped"}
    \/ epc = "stopping" /\ ~estop.inRun

\* Stop has been called on every registered component
AllStopCalled ==
    \A i \in 1..Len(components) :
        \E k \in 1..Len(stopLog) : stopLog[k] = <<components[i], "call">>

\* C12: whenever Engine.Run stops waiting (on a stop signal, on a component that
\* finished without error, on a component that failed), Stop has been called on
\* every registered component by the time Run returns.
C12_RunStopsEverything ==
    (epc = "returned" /\ efirst # "none") => AllStopCalled

\* C13: once the wait of Engine.Run has ended, in each of its three cases, the
\* goroutine that exits the process with code 1 on a further signal is
\* listening, also while Engine.Stop runs after a component failed.
C13_FurtherSignalForcesExit ==
    (efirst # "none" /\ epc # "exited") => eforce

\* the first event Run's select observes decides what Run returns: a non-nil
\* error received from notify is returned after Engine.Stop, anything else gives nil
FirstEventDecides ==
    (epc = "waiting" /\ epc' # "waiting") =>
        IF Len(notify') < Len(notify) /\ Head(notify) # NoError
        THEN /\ eret' = Head(notify)
             /\ epc' = "stopping" /\ estop'.inRun
        ELSE /\ eret' = NoError
             /\ epc' = "returned"

\* C14: Engine.Run returns a non-nil error exactly when the first event it
\* observes is a component reporting a non-nil error, and then it returns that
\* error after having stopped all components; if the first event is a stop
\* signal or a component reporting nil it returns nil, whatever is reported later.
C14_RunReturnsFirstError ==
    /\ [][FirstEventDecides]_vars
    /\ [][eret # "none" => eret' = eret]_vars
    /\ [](RunReturned => (eret # NoError <=> efirst = "failed"))
    /\ []((epc = "returned" /\ eret # NoError) =>
             (estop.phase = "finished" /\ stopLog = StopsOf(Reverse(components))))
    /\ [](epc = "waiting" => eret = "none")

C14_Witness ==
    /\ epc = "returned"
    /\ eret = "other error"
    /\ Len(components) >= 2
    /\ stopLog = StopsOf(Reverse(components))

(***************************************************************************)
(*                      PROPERTIES OF run() (SpecRun)                      *)
(***************************************************************************)

\* C2: if a component fails while the indexer runs (it reports on the failed
\* channel and that ends run()'s wait), the process exits with a nonzero code.
C2_FailureExitsNonzero ==
    (rexit # NoExit /\ rwake = "failed") => rexit # success

\* C3: whenever run() leaves its wait it stops the RPC/API server, the consensus
\* follower, the mapper FSM and the metrics server, in this order, each Stop
\* called after the previous one returned, and it returns only after all four
\* were stopped.
C3_StopOrder ==
    /\ IsPrefix(rstops, StopsOf(<<"api", "follower", "mapper", "metrics">>))
    /\ rwake = "none" => rstops = <<>>
    /\ (rwake # "none" /\ rret # NoExit) =>
           rstops = StopsOf(<<"api", "follower", "mapper", "metrics">>)

C3_Witness ==
    /\ rwake = "failed"
    /\ rret # NoExit
    /\ rstops = StopsOf(<<"api", "follower", "mapper", "metrics">>)

\* what exists before the test of the checkpoint flag
BeforeStartup == {"indexDB", "protocolDB", "reader"}

\* C7: with an empty index database and no checkpoint flag, run() returns failure
\* before startup: the index writer, the consensus follower, the trackers, the
\* FSM, the API server and the metrics server are never created or started, and
\* nothing is written to the index.
C7_NoCheckpointOnEmptyIndex ==
    (rflags.empty /\ ~rflags.checkpoint) =>
        /\ rmade \subseteq BeforeStartup
        /\ \A c \in Launched : rcomp[c] = "none"
        /\ rwrites = 0
        /\ rpc \notin {"openIndex", "openProtocol", "first"} =>
               /\ rpc \in {"unwinding", "exited"}
               /\ rret = failure
        /\ rexit # NoExit => rexit = failure

C7_Witness ==
    /\ rflags.empty /\ ~rflags.checkpoint
    /\ "reader" \in rmade
    /\ rclosed = <<"protocolDB", "indexDB">>
    /\ rexit = failure

\* x was closed, and before y was (if y was closed at all)
ClosedBefore(x, y) ==
    /\ \E i \in 1..Len(rclosed) : rclosed[i] = x
    /\ \A j \in 1..Len(rclosed) :
           rclosed[j] = y => \E i \in 1..(j - 1) : rclosed[i] = x

\* run() has returned and its deferred calls have run
Returned == rpc = "exited" /\ rdefer = <<>>

\* C24: on every return path of run() taken after the index writer was created
\* (a forced exit excepted) the index writer is closed before the index database
\* is closed, and on the final return both are closed only after all four
\* components were stopped.
C24_WriterClosedBeforeIndex ==
    /\ "writer" \in rmade =>
           \A j \in 1..Len(rclosed) :
               rclosed[j] = "indexDB" => ClosedBefore("writer", "indexDB")
    /\ (Returned /\ "writer" \in rmade) =>
           /\ ClosedBefore("writer", "indexDB")
           /\ \E j \in 1..Len(rclosed) : rclosed[j] = "indexDB"
    /\ (rwake # "none" /\ rclosed # <<>>) =>
           rstops = StopsOf(<<"api", "follower", "mapper", "metrics">>)
    /\ (rexit # NoExit /\ rdefer # <<>>) => rforce

C24_Witness ==
    /\ Returned
    /\ rwake # "none"
    /\ rwrites > 0
    /\ ClosedBefore("writer", "indexDB")
    /\ rclosed[Len(rclosed)] = "indexDB"

\* C25: with the metrics flag empty the indexer keeps running: the immediate
\* successful return of the metrics component does not by itself end run()'s
\* wait, and does not get the API server, the consensus follower and the mapper
\* stopped; the wait ends on a signal, on a failure, or when another component
\* has finished.
C25_DisabledMetricsKeepRunning ==
    (~MetricsEnabled(rflags) /\ (rwake # "none" \/ rstops # <<>>)) =>
        \/ rwake \in {"signal", "failed"}
        \/ \E c \in Launched \ {"metrics"} : rcomp[c] # "running"

(***************************************************************************)
(*        PROPERTIES OF THE COMPONENTS' REPORTS (SpecProcess)              *)
(***************************************************************************)

\* C23: no component goroutine is blocked on reporting its outcome: each
\* component reporting at most once, its send is accepted without a receiver,
\* by Engine.Run's notify channel (capacity len(components)) and by run()'s done
\* and failed channels (capacity 4 for the 4 components), also after the select
\* has returned.
C23_ReportsNeverBlock ==
    /\ \A n \in NameSet : crun[n] # "blocked"
    /\ \A c \in Launched : rcomp[c] # "blocked"
    /\ Len(notify) <= NotifyCap
    /\ rdone <= ChanCap /\ rfailed <= ChanCap

C23_Witness ==
    /\ rwake = "signal"
    /\ \A c \in Launched : rcomp[c] = "reported"
    /\ rdone + rfailed = Cardinality(Launched)
    /\ rfailed >= 2

(***************************************************************************)
(*                    PROPERTIES OF THE FSM (SpecFSM)                      *)
(***************************************************************************)

\* the committed heights have no gap from the first indexed height on, and
\* reach the indexed height
Contiguous ==
    ffirst # NoHeight =>
        /\ \A h \in fcommits : \A g \in ffirst..h : g \in fcommits
        /\ \A h \in ffirst..findexed : h \in fcommits

\* a step commits height h + 1 only after height h, and changes the indexed
\* height of a non-empty index only in Forward and by one
StepsInOrder ==
    /\ \A h \in fcommits' \ fcommits : h = ffirst' \/ (h - 1) \in fcommits
    /\ (findexed # NoHeight /\ findexed' # findexed) =>
           (fstatus = "Forward" /\ findexed' = findexed + 1)

\* C10: the heights committed to the index are contiguous from the first indexed
\* height to indexed_height: height h + 1 is committed only after height h,
\* indexed_height changes only in Forward and only by +1, and no committed
\* height is above an uncommitted one.
C10_ContiguousHeights == []Contiguous /\ [][StepsInOrder]_vars

C10_Witness ==
    /\ ffirst # NoHeight
    /\ findexed >= ffirst + 2
    /\ fstatus = "Index"
    /\ ffirst..findexed \subseteq fcommits

\* the FSM is in Map at a block whose recomputed root hash is not its commitment
Mismatch == fstatus = "Map" /\ Computed(fheight, fbad) # Commit(fheight)

\* nothing of the mismatching height is persisted, the indexed height is the
\* one before it
NothingPersisted ==
    /\ findexed = fheight - 1
    /\ fheight \notin fcommits
    /\ Commit(fheight) \notin fforest
    /\ Computed(fheight, fbad) \notin fforest


\* C11: when, in Map, the root hash recomputed from a block's updates differs
\* from the block's state commitment, the indexer aborts with a failure and
\* indexed_height keeps its value: no commitment, register mapping or forest
\* entry is persisted for the mismatching height, and the FSM never leaves Map.
C11_MismatchIsFatal ==
    /\ [](Mismatch => NothingPersisted)
    /\ [][(Mismatch /\ fresult = "running" /\ <<fstatus, fresult>>' # <<fstatus, fresult>>)
            => (fstatus' = fstatus /\ fresult' \in {"failed", "stopped"}
                /\ UNCHANGED <<findexed, fcommits, fforest, ffirst>>)]_vars
    /\ [][(Mismatch /\ fresult # "running") => UNCHANGED fsmVars]_vars

C11_Witness ==
    /\ Mismatch
    /\ fresult = "failed"
    /\ findexed = fheight - 1
    /\ findexed > ffirst

====
